---- MODULE Spec2Model ----
(***************************************************************************)
(* A model of prefect/logging/configuration.py: load_logging_config (the   *)
(* template substitution, the YAML parse, the environment overrides) and   *)
(* setup_logging (the once-per-process gate PROCESS_LOGGING_CONFIG, the    *)
(* call of logging.config.dictConfig and the wiring of the extra loggers). *)
(*                                                                         *)
(* Values are tagged records [kind, val]: kind "map" (val a function from  *)
(* keys to values), "list" (val a sequence of strings, an opaque leaf),    *)
(* "str" / "int" (val the text of the scalar), "bool" and "none" (None).    *)
(* Program strings (mapping keys, scalar texts, environment variable names *)
(* and values, logger names) are sequences of one-character strings,       *)
(* because to_envvar and the YAML scalar resolution work on characters.    *)
(***************************************************************************)
EXTENDS Integers, Sequences, FiniteSets, TLC

VARIABLES
    PROCESS_LOGGING_CONFIG, \* the module global: NoneV, or the stored configuration
    environ,                \* os.environ: variable name -> string
    files,                  \* the file system: path -> the name of the text it holds
    logging_state,          \* the logging module: handler registry and loggers
    warned,                 \* the warnings emitted so far (each one its config_diff)
    dict_config_calls,      \* how often logging.config.dictConfig was entered
    applied,                \* the side effects that ran to completion: who, which config
    calls,                  \* the setup_logging calls begun so far
    last,                   \* the latest call: the path asked for and read, the gate, the outcome
    pc,                     \* per thread: where it is inside setup_logging
    local,                  \* per thread: its settings argument and its config
    lock,                   \* the wrapping mutex: its holder, or NoThread
    merge,                  \* one override merge: its inputs and its result
    step                    \* one pure step on its own: its inputs and its result

vars == <<PROCESS_LOGGING_CONFIG, environ, files, logging_state, warned,
          dict_config_calls, applied, calls, last, pc, local, lock, merge, step>>

-----------------------------------------------------------------------------
(* Bounds of the model. *)

\* setup_logging calls in one behaviour
MaxCalls == 3

\* threads that call setup_logging concurrently
NumThreads == 2

-----------------------------------------------------------------------------
(* Characters and strings as sequences of characters. *)

Lower == <<"a","b","c","d","e","f","g","h","i","j","k","l","m",
           "n","o","p","q","r","s","t","u","v","w","x","y","z">>
Upper == <<"A","B","C","D","E","F","G","H","I","J","K","L","M",
           "N","O","P","Q","R","S","T","U","V","W","X","Y","Z">>
Digits == <<"0","1","2","3","4","5","6","7","8","9">>

Range(s) == { s[i] : i \in DOMAIN s }

\* the character class [0-9a-zA-Z] of the regular expression
AlnumChars == Range(Lower) \cup Range(Upper) \cup Range(Digits)
IsAlnum(c) == c \in AlnumChars

\* the upper-case letter of every lower-case letter
UpperOf == [c \in Range(Lower) |-> Upper[CHOOSE i \in DOMAIN Lower : Lower[i] = c]]

\* str.upper() on one character
UpperChar(c) == IF c \in DOMAIN UpperOf THEN UpperOf[c] ELSE c

\* str.upper()
StrUpper(s) == [i \in DOMAIN s |-> UpperChar(s[i])]

\* sep.join(parts) for a sequence of character sequences
RECURSIVE Join(_, _)
Join(parts, sep) ==
    IF parts = <<>> THEN <<>>
    ELSE IF Len(parts) = 1 THEN parts[1]
    ELSE parts[1] \o sep \o Join(Tail(parts), sep)

\* re.sub(r"[^0-9a-zA-Z]", "_", s), the pattern without its "+": every
\* character outside the class becomes a "_" of its own
RECURSIVE to_envvar_each(_)
to_envvar_each(s) ==
    IF s = <<>> THEN <<>>
    ELSE <<(IF IsAlnum(s[1]) THEN s[1] ELSE "_")>> \o to_envvar_each(Tail(s))

\* re.sub(r"[^0-9a-zA-Z]+", "_", s): every maximal run of characters outside
\* the class becomes one "_"
RECURSIVE to_envvar(_)
to_envvar(s) ==
    IF s = <<>> THEN <<>>
    ELSE IF IsAlnum(s[1]) THEN <<s[1]>> \o to_envvar(Tail(s))
    ELSE IF Len(s) > 1 /\ ~IsAlnum(s[2]) THEN to_envvar(Tail(s))
    ELSE <<"_">> \o to_envvar(Tail(s))

\* "PREFECT_LOGGING_"
EnvPrefix == <<"P","R","E","F","E","C","T","_","L","O","G","G","I","N","G","_">>

\* to_envvar("PREFECT_LOGGING_" + "_".join(key_tup)).upper()
EnvName(key_tup) == StrUpper(to_envvar(EnvPrefix \o Join(key_tup, <<"_">>)))

-----------------------------------------------------------------------------
(* Values. *)

NoneV == [kind |-> "none", val |-> "None"]
StrV(s) == [kind |-> "str", val |-> s]
IntV(s) == [kind |-> "int", val |-> s]
ListV(q) == [kind |-> "list", val |-> q]
MapV(f) == [kind |-> "map", val |-> f]
EmptyMap == MapV(<<>>)

IsMap(v) == v.kind = "map"
Keys(v) == DOMAIN v.val

\* Python's truth value of a configuration object
Truthy(v) ==
    CASE v.kind = "none" -> FALSE
      [] v.kind = "map" -> DOMAIN v.val # {}
      [] v.kind = "list" -> v.val # <<>>
      [] v.kind = "str" -> v.val # <<>>
      [] v.kind = "int" -> \E i \in DOMAIN v.val : v.val[i] # "0"
      [] v.kind = "bool" -> v.val

-----------------------------------------------------------------------------
(* prefect.utilities.collections: the key-path flattener and its inverse.  *)

\* the key-paths of the leaves below v; a nested empty mapping is a leaf
RECURSIVE LeafPaths(_)
LeafPaths(v) ==
    IF IsMap(v) /\ Keys(v) # {}
    THEN UNION { { <<k>> \o p : p \in LeafPaths(v.val[k]) } : k \in Keys(v) }
    ELSE { <<>> }

\* the value at key-path p of v
RECURSIVE ValueAt(_, _)
ValueAt(v, p) == IF p = <<>> THEN v ELSE ValueAt(v.val[Head(p)], Tail(p))

\* dict_to_flatdict(dct): key-path -> leaf; the empty dict has no key-path
dict_to_flatdict(dct) ==
    LET paths == IF Keys(dct) = {} THEN {} ELSE LeafPaths(dct)
    IN  [p \in paths |-> ValueAt(dct, p)]

\* flatdict_to_dict(flat): the nested dict of a key-path -> leaf mapping
RECURSIVE flatdict_to_dict(_)
flatdict_to_dict(flat) ==
    LET firsts == { p[1] : p \in DOMAIN flat }
        below(k) == { Tail(p) : p \in { r \in DOMAIN flat : r[1] = k } }
    IN  MapV([k \in firsts |->
                IF <<k>> \in DOMAIN flat
                THEN flat[<<k>>]
                ELSE flatdict_to_dict([q \in below(k) |-> flat[<<k>> \o q]])])

-----------------------------------------------------------------------------
(* load_logging_config: the overrides from the environment. *)

\* os.environ.get(name): the value, or NoneV
EnvironGet(env, name) == IF name \in DOMAIN env THEN StrV(env[name]) ELSE NoneV

\* line 56 as "if env_val is not None": an empty value overrides too
OverrideLeafIfPresent(env, key_tup, val) ==
    LET env_val == EnvironGet(env, EnvName(key_tup))
    IN  IF env_val # NoneV THEN env_val ELSE val

\* lines 52-60 without the test of line 56: the looked-up value always wins
OverrideLeafAlways(env, key_tup, val) == EnvironGet(env, EnvName(key_tup))

\* lines 52-60: the value kept for one key-path
OverrideLeaf(env, key_tup, val) ==
    LET env_val == EnvironGet(env, EnvName(key_tup))
    IN  IF Truthy(env_val) THEN env_val ELSE val

\* lines 48-62 with os.environ.pop for os.environ.get: a variable is used up
\* by the first key-path that derives its name
ApplyOverridesPopping(config, env) ==
    LET flat_config == dict_to_flatdict(config)
        first(name) == CHOOSE p \in DOMAIN flat_config : EnvName(p) = name
    IN  flatdict_to_dict([key_tup \in DOMAIN flat_config |->
                            IF first(EnvName(key_tup)) = key_tup
                            THEN OverrideLeaf(env, key_tup, flat_config[key_tup])
                            ELSE flat_config[key_tup]])

\* lines 48-62: flatten, override every key-path, re-nest
ApplyOverrides(config, env) ==
    LET flat_config == dict_to_flatdict(config)
    IN  flatdict_to_dict([key_tup \in DOMAIN flat_config |->
                            OverrideLeaf(env, key_tup, flat_config[key_tup])])

-----------------------------------------------------------------------------
(* The settings registry (prefect.settings) and the settings snapshot.     *)

\* SETTINGS: the names of the registered settings
SETTINGS == { "PREFECT_LOGGING_LEVEL", "PREFECT_LOGGING_SETTINGS_PATH",
              "PREFECT_LOGGING_EXTRA_LOGGERS" }

\* setting.value_from(settings)
value_from(name, settings) == settings[name]

\* str(list of strings): "['a', 'b']"
RECURSIVE ListRepr(_)
ListRepr(q) ==
    IF q = <<>> THEN <<>>
    ELSE <<"'">> \o q[1] \o <<"'">>
         \o (IF Len(q) > 1 THEN <<",", " ">> ELSE <<>>) \o ListRepr(Tail(q))

\* str(value)
PyStr(v) ==
    CASE v.kind = "none" -> <<"N","o","n","e">>
      [] v.kind = "list" -> <<"[">> \o ListRepr(v.val) \o <<"]">>
      [] OTHER -> v.val

\* the settings of the process, as prefect.settings loads them at import
GlobalSettings ==
    [PREFECT_LOGGING_LEVEL |-> StrV(<<"I","N","F","O">>),
     PREFECT_LOGGING_SETTINGS_PATH |-> StrV(<<"l","o","g","g","i","n","g",".","y","m","l">>),
     PREFECT_LOGGING_EXTRA_LOGGERS |-> ListV(<<>>)]

\* lines 40-43 with setting.value() for setting.value_from(settings): the
\* values of the process, whatever snapshot was passed
SubstitutionMappingOfGlobals(settings) ==
    [name \in SETTINGS |-> PyStr(value_from(name, GlobalSettings))]

\* lines 40-43: the substitution variables, one per registered setting
SubstitutionMapping(settings) ==
    [name \in SETTINGS |-> PyStr(value_from(name, settings))]

-----------------------------------------------------------------------------
(* Template text.  A template is a sequence of lines "key: value" with an  *)
(* indentation; the value is absent (a nested block follows), a flow list  *)
(* "[a, b]", or a text made of literal pieces and placeholders ${name}.    *)

Lit(text) == [ref |-> FALSE, text |-> text]
Ref(name) == [ref |-> TRUE, name |-> name]
BlockLine(indent, key) == [indent |-> indent, key |-> key, t |-> "block"]
TextLine(indent, key, pieces) ==
    [indent |-> indent, key |-> key, t |-> "text", pieces |-> pieces]
FlowLine(indent, key, items) ==
    [indent |-> indent, key |-> key, t |-> "flow", items |-> items]

\* the names the placeholders of a template refer to
Placeholders(template) ==
    UNION { { template[i].pieces[j].name :
                j \in { n \in DOMAIN template[i].pieces : template[i].pieces[n].ref } } :
            i \in { m \in DOMAIN template : template[m].t = "text" } }

\* the text of a sequence of pieces under a mapping
RECURSIVE PiecesText(_, _)
PiecesText(pieces, mapping) ==
    IF pieces = <<>> THEN <<>>
    ELSE (IF pieces[1].ref THEN mapping[pieces[1].name] ELSE pieces[1].text)
         \o PiecesText(Tail(pieces), mapping)

Raise(error) == [error |-> error, value |-> NoneV]
Return(value) == [error |-> "", value |-> value]
Raised(r) == r.error # ""

\* the text of a line after the substitution
SubstitutedLine(line, text) ==
    [indent |-> line.indent, key |-> line.key, t |-> "scalar", text |-> text]

\* string.Template(text).safe_substitute(mapping): a placeholder the mapping
\* does not have stays in the text
RECURSIVE SafePiecesText(_, _)
SafePiecesText(pieces, mapping) ==
    IF pieces = <<>> THEN <<>>
    ELSE (IF ~pieces[1].ref THEN pieces[1].text
          ELSE IF pieces[1].name \in DOMAIN mapping THEN mapping[pieces[1].name]
          ELSE <<"$", "{", pieces[1].name, "}">>)
         \o SafePiecesText(Tail(pieces), mapping)

SafeSubstitute(template, mapping) ==
    Return([i \in DOMAIN template |->
              IF template[i].t = "text"
              THEN SubstitutedLine(template[i], SafePiecesText(template[i].pieces, mapping))
              ELSE template[i]])

\* string.Template(text).substitute(mapping): KeyError on a name that the
\* mapping does not have
Substitute(template, mapping) ==
    IF ~(Placeholders(template) \subseteq DOMAIN mapping)
    THEN Raise("KeyError")
    ELSE Return([i \in DOMAIN template |->
                   IF template[i].t = "text"
                   THEN SubstitutedLine(template[i], PiecesText(template[i].pieces, mapping))
                   ELSE template[i]])

-----------------------------------------------------------------------------
(* yaml.safe_load on the substituted lines. *)

YamlError == [kind |-> "error", val |-> "YAMLError"]

DigitChars == Range(Digits)
IsIntText(text) == text # <<>> /\ \A i \in DOMAIN text : text[i] \in DigitChars

\* the implicit type of a plain scalar
ResolveScalar(text) ==
    CASE text = <<>> \/ text = <<"n","u","l","l">> -> NoneV
      [] text = <<"t","r","u","e">> -> [kind |-> "bool", val |-> TRUE]
      [] text = <<"f","a","l","s","e">> -> [kind |-> "bool", val |-> FALSE]
      [] IsIntText(text) -> IntV(text)
      [] OTHER -> StrV(text)

SetMin(S) == CHOOSE x \in S : \A y \in S : x <= y

\* a single-quoted scalar without its quotes; any other item as it is
Unquoted(item) ==
    IF Len(item) >= 2 /\ item[1] = "'" /\ item[Len(item)] = "'"
    THEN SubSeq(item, 2, Len(item) - 1)
    ELSE item

\* the items of the inside of a flow sequence, which "," and blanks separate
RECURSIVE FlowItems(_)
FlowItems(inner) ==
    LET commas == { i \in DOMAIN inner : inner[i] = "," }
    IN  IF inner = <<>> THEN <<>>
        ELSE IF inner[1] = " " THEN FlowItems(Tail(inner))
        ELSE IF commas = {} THEN << Unquoted(inner) >>
        ELSE << Unquoted(SubSeq(inner, 1, SetMin(commas) - 1)) >>
             \o FlowItems(SubSeq(inner, SetMin(commas) + 1, Len(inner)))

\* a value text that begins with "[": one flow sequence up to the end of the
\* line, anything after its "]" is an error
ParseFlowText(text) ==
    LET inner == SubSeq(text, 2, Len(text) - 1)
    IN  IF text[Len(text)] # "]" \/ \E i \in DOMAIN inner : inner[i] \in {"[", "]"}
        THEN YamlError
        ELSE ListV(FlowItems(inner))

\* the value of the text after "key: "
ParseValueText(text) ==
    IF text # <<>> /\ text[1] = "[" THEN ParseFlowText(text) ELSE ResolveScalar(text)

\* a block mapping: the entry of the first line, its children (the deeper
\* lines that follow it), then the entries of the lines after them
RECURSIVE ParseBlock(_)
ParseBlock(lines) ==
    LET first == lines[1]
        later == { j \in 2..Len(lines) : lines[j].indent <= first.indent }
        n == IF later = {} THEN Len(lines) + 1 ELSE SetMin(later)
        children == SubSeq(lines, 2, n - 1)
        rest == SubSeq(lines, n, Len(lines))
        value ==
            CASE first.t = "block" ->
                    IF children = <<>> THEN NoneV ELSE ParseBlock(children)
              [] first.t = "scalar" ->
                    IF children = <<>> THEN ParseValueText(first.text) ELSE YamlError
              [] first.t = "flow" ->
                    IF children = <<>> THEN ListV(first.items) ELSE YamlError
        others ==
            IF rest = <<>> THEN EmptyMap
            ELSE IF rest[1].indent # first.indent THEN YamlError
            ELSE ParseBlock(rest)
    IN  IF value = YamlError \/ others = YamlError
        THEN YamlError
        ELSE MapV(others.val @@ (first.key :> value))

\* yaml.safe_load(text): None for a document without lines
yaml_safe_load(lines) == IF lines = <<>> THEN NoneV ELSE ParseBlock(lines)

\* lines 33-62: load_logging_config, given the text at path
load_logging_config(template, settings, env) ==
    LET sub == Substitute(template, SubstitutionMapping(settings))
        config == yaml_safe_load(sub.value)
    IN  IF Raised(sub) THEN sub
        ELSE IF config = YamlError THEN Raise("YAMLError")
        ELSE IF ~IsMap(config) THEN Raise("AttributeError")
        ELSE Return(ApplyOverrides(config, env))

-----------------------------------------------------------------------------
(* The strings of the model. *)

K_version == <<"v","e","r","s","i","o","n">>
K_handlers == <<"h","a","n","d","l","e","r","s">>
K_loggers == <<"l","o","g","g","e","r","s">>
K_level == <<"l","e","v","e","l">>
K_propagate == <<"p","r","o","p","a","g","a","t","e">>
K_tag == <<"t","a","g">>
H_console == <<"c","o","n","s","o","l","e">>
L_prefect == <<"p","r","e","f","e","c","t">>
L_prefect_extra == <<"p","r","e","f","e","c","t",".","e","x","t","r","a">>
L_dask == <<"d","a","s","k">>
S_INFO == <<"I","N","F","O">>
S_DEBUG == <<"D","E","B","U","G">>
S_BOGUS == <<"B","O","G","U","S">>
S_false == <<"f","a","l","s","e">>
UserPath == <<"u","s","e","r",".","y","m","l">>

\* line 21: the path of the logging.yml shipped with the package
DEFAULT_LOGGING_SETTINGS_PATH == <<"l","o","g","g","i","n","g",".","y","m","l">>

\* the loggers of the process
LoggerNames == { L_prefect, L_prefect_extra, L_dask }

-----------------------------------------------------------------------------
(* logging.config.dictConfig, as far as setup_logging depends on it: the   *)
(* version check, the handler registry, and for every logger its level,    *)
(* handlers and propagate flag.  It raises at the first item it cannot     *)
(* configure and keeps what it configured before.                          *)

NOTSET == 0

\* logging._nameToLevel
LevelNames ==
    (<<"N","O","T","S","E","T">> :> 0) @@ (S_DEBUG :> 10) @@ (S_INFO :> 20)
    @@ (<<"W","A","R","N","I","N","G">> :> 30) @@ (<<"E","R","R","O","R">> :> 40)

\* int(text) for a text of digits
RECURSIVE ToNat(_)
ToNat(text) ==
    IF text = <<>> THEN 0
    ELSE 10 * ToNat(SubSeq(text, 1, Len(text) - 1))
         + (CHOOSE i \in DOMAIN Digits : Digits[i] = text[Len(text)]) - 1

\* logging._checkLevel(v) succeeds
ValidLevel(v) ==
    \/ v.kind = "int"
    \/ v.kind = "str" /\ v.val \in DOMAIN LevelNames

\* logging._checkLevel(v)
CheckLevel(v) == IF v.kind = "int" THEN ToNat(v.val) ELSE LevelNames[v.val]

\* dict.get(key), None by default
Get(v, key) == IF key \in Keys(v) THEN v.val[key] ELSE NoneV

\* the order of sorted(): code points, compared character by character
Alphabet == <<".">> \o Digits \o Upper \o <<"_">> \o Lower
CodePoint == [c \in Range(Alphabet) |-> CHOOSE i \in DOMAIN Alphabet : Alphabet[i] = c]
CharIndex(c) == CodePoint[c]

RECURSIVE StrLess(_, _)
StrLess(a, b) ==
    IF b = <<>> THEN FALSE
    ELSE IF a = <<>> THEN TRUE
    ELSE IF a[1] # b[1] THEN CharIndex(a[1]) < CharIndex(b[1])
    ELSE StrLess(Tail(a), Tail(b))

\* sorted(S)
RECURSIVE Sorted(_)
Sorted(S) ==
    IF S = {} THEN <<>>
    ELSE LET m == CHOOSE x \in S : \A y \in S \ {x} : StrLess(x, y)
         IN  <<m>> \o Sorted(S \ {m})

FreshLogger == [handlers |-> {}, level |-> NOTSET, propagate |-> TRUE]

\* the logging module before any configuration
InitialLogging == [handlers |-> {}, loggers |-> [n \in LoggerNames |-> FreshLogger]]

Failed(st) == [error |-> "ValueError", state |-> st]
Done(st) == [error |-> "", state |-> st]

\* configure_handler for the handlers in names, in order
RECURSIVE ConfigureHandlers(_, _, _)
ConfigureHandlers(names, handlers, st) ==
    IF names = <<>> THEN Done(st)
    ELSE LET conf == handlers.val[names[1]]
         IN  IF ~IsMap(conf) THEN Failed(st)
             ELSE IF Get(conf, K_level) # NoneV /\ ~ValidLevel(Get(conf, K_level))
             THEN Failed(st)
             ELSE ConfigureHandlers(Tail(names), handlers,
                      [st EXCEPT !.handlers = @ \cup {names[1]}])

\* the names a logger's "handlers" entry iterates over
HandlerItems(hs) ==
    CASE hs.kind = "list" -> hs.val
      [] hs.kind = "str" -> [i \in DOMAIN hs.val |-> <<hs.val[i]>>]
      [] OTHER -> <<>>

\* add_handlers: logger.addHandler(config['handlers'][h]) for h in items
RECURSIVE AddHandlers(_, _, _, _)
AddHandlers(name, items, known, st) ==
    IF items = <<>> THEN Done(st)
    ELSE IF items[1] \notin known THEN Failed(st)
    ELSE AddHandlers(name, Tail(items), known,
             [st EXCEPT !.loggers[name].handlers = @ \cup {items[1]}])

\* configure_logger(name, conf): level, then the handlers, then propagate
ConfigureLogger(name, conf, known, st) ==
    LET level == Get(conf, K_level)
        hs == Get(conf, K_handlers)
        propagate == Get(conf, K_propagate)
        st1 == IF level = NoneV THEN st
               ELSE [st EXCEPT !.loggers[name].level = CheckLevel(level)]
        st2 == [st1 EXCEPT !.loggers[name].handlers = {}]
        added == IF Truthy(hs) THEN AddHandlers(name, HandlerItems(hs), known, st2)
                 ELSE Done(st2)
    IN  IF ~IsMap(conf) THEN Failed(st)
        ELSE IF level # NoneV /\ ~ValidLevel(level) THEN Failed(st)
        ELSE IF Truthy(hs) /\ hs.kind \notin {"list", "str"} THEN Failed(st2)
        ELSE IF added.error # "" THEN added
        ELSE IF propagate = NoneV THEN added
        ELSE Done([added.state EXCEPT !.loggers[name].propagate = Truthy(propagate)])

\* configure_logger for the loggers in names, in order
RECURSIVE ConfigureLoggers(_, _, _, _)
ConfigureLoggers(names, loggers, known, st) ==
    IF names = <<>> THEN Done(st)
    ELSE LET one == ConfigureLogger(names[1], loggers.val[names[1]], known, st)
         IN  IF one.error # "" THEN one
             ELSE ConfigureLoggers(Tail(names), loggers, known, one.state)

\* logging.config.dictConfig(config) in logging state st
dictConfig(config, st) ==
    LET handlers == IF K_handlers \in Keys(config) THEN config.val[K_handlers] ELSE EmptyMap
        loggers == IF K_loggers \in Keys(config) THEN config.val[K_loggers] ELSE EmptyMap
        cleared == [st EXCEPT !.handlers = {}]
        hdone == ConfigureHandlers(Sorted(Keys(handlers)), handlers, cleared)
    IN  IF K_version \notin Keys(config) THEN Failed(st)
        ELSE IF config.val[K_version] # IntV(<<"1">>) THEN Failed(st)
        ELSE IF ~IsMap(handlers) \/ ~IsMap(loggers) THEN Failed(cleared)
        ELSE IF hdone.error # "" THEN hdone
        ELSE ConfigureLoggers(Sorted(Keys(loggers)), loggers, Keys(handlers), hdone.state)

-----------------------------------------------------------------------------
(* setup_logging, lines 96-105: the extra loggers. *)

\* lines 100-105 for one logger: nothing happens inside an empty handler loop
WireExtraLogger(logger, extra_config) ==
    IF extra_config.handlers = {} THEN logger
    ELSE [handlers |-> logger.handlers \cup extra_config.handlers,
          level |-> IF logger.level = NOTSET THEN extra_config.level ELSE logger.level,
          propagate |-> extra_config.propagate]

\* lines 97-105: copy the configuration of 'prefect.extra' to every logger
\* named in PREFECT_LOGGING_EXTRA_LOGGERS
RECURSIVE WireExtraLoggers(_, _)
WireExtraLoggers(names, st) ==
    IF names = <<>> THEN st
    ELSE WireExtraLoggers(Tail(names),
             [st EXCEPT !.loggers[names[1]] =
                  WireExtraLogger(@, st.loggers[L_prefect_extra])])

-----------------------------------------------------------------------------
(* The inputs: template files, environments, settings snapshots. *)

\* a reduced logging.yml: one handler, the loggers 'prefect' and 'prefect.extra'
DefaultTemplate ==
    << TextLine(0, K_version, <<Lit(<<"1">>)>>),
       BlockLine(0, K_handlers),
       BlockLine(2, H_console),
       TextLine(4, K_level, <<Lit(<<"0">>)>>),
       BlockLine(0, K_loggers),
       BlockLine(2, L_prefect),
       TextLine(4, K_level, <<Ref("PREFECT_LOGGING_LEVEL")>>),
       FlowLine(4, K_handlers, <<H_console>>),
       BlockLine(2, L_prefect_extra),
       TextLine(4, K_level, <<Ref("PREFECT_LOGGING_LEVEL")>>),
       FlowLine(4, K_handlers, <<H_console>>),
       TextLine(4, K_propagate, <<Lit(S_false)>>) >>

\* a user file with fewer top-level keys than the default
SmallTemplate ==
    << TextLine(0, K_version, <<Lit(<<"1">>)>>),
       BlockLine(0, K_handlers),
       BlockLine(2, H_console),
       TextLine(4, K_level, <<Lit(<<"0">>)>>) >>

\* a user file with a top-level key the default does not have
TaggedTemplate ==
    << TextLine(0, K_version, <<Lit(<<"1">>)>>),
       TextLine(0, K_tag, <<Lit(<<"x">>), Ref("PREFECT_LOGGING_LEVEL")>>),
       BlockLine(0, K_handlers),
       BlockLine(2, H_console),
       TextLine(4, K_level, <<Lit(<<"0">>)>>) >>

\* a user file that refers to a setting that is not registered
UnknownNameTemplate ==
    << TextLine(0, K_version, <<Lit(<<"1">>)>>),
       TextLine(0, K_tag, <<Ref("NO_SUCH_SETTING")>>) >>

\* a user file that is not YAML: a nested block under a scalar
MalformedTemplate ==
    << TextLine(0, K_version, <<Lit(<<"1">>)>>),
       TextLine(2, K_tag, <<Lit(<<"x">>)>>) >>

\* a user file that gives 'prefect.extra' a level and a propagate flag, and
\* no handler
BareExtraTemplate ==
    << TextLine(0, K_version, <<Lit(<<"1">>)>>),
       BlockLine(0, K_loggers),
       BlockLine(2, L_prefect_extra),
       TextLine(4, K_level, <<Ref("PREFECT_LOGGING_LEVEL")>>),
       TextLine(4, K_propagate, <<Lit(S_false)>>) >>

\* the texts a file can hold, by name
TemplateText(name) ==
    CASE name = "default" -> DefaultTemplate
      [] name = "small" -> SmallTemplate
      [] name = "tagged" -> TaggedTemplate
      [] name = "unknown_name" -> UnknownNameTemplate
      [] name = "malformed" -> MalformedTemplate
      [] name = "bare_extra" -> BareExtraTemplate

UserTemplates == { "small", "tagged", "unknown_name", "malformed" }

\* the packaged default always exists; the user's file may
PackagedFiles == (DEFAULT_LOGGING_SETTINGS_PATH :> "default")

\* path.read_text()
ReadText(fs, path) == TemplateText(fs[path])

\* the variable that overrides the level of the logger 'prefect.extra'
ExtraLevelVar == EnvName(<<K_loggers, L_prefect_extra, K_level>>)

EnvVarNames == { ExtraLevelVar }
EnvValues == { S_DEBUG, S_BOGUS }

\* the snapshots setup_logging is called with
SettingsSnapshots ==
    { [PREFECT_LOGGING_LEVEL |-> StrV(level),
       PREFECT_LOGGING_SETTINGS_PATH |-> StrV(UserPath),
       PREFECT_LOGGING_EXTRA_LOGGERS |-> ListV(extra)] :
        level \in {S_INFO, S_DEBUG}, extra \in {<<>>, <<L_dask>>} }
    \cup
    { [PREFECT_LOGGING_LEVEL |-> StrV(S_INFO),
       PREFECT_LOGGING_SETTINGS_PATH |-> NoneV,
       PREFECT_LOGGING_EXTRA_LOGGERS |-> ListV(<<>>)] }

-----------------------------------------------------------------------------
(* setup_logging, step by step. *)

\* lines 70-77: choose the path, then load_logging_config; the setting's
\* value must be a path, None has no exists()
ChosenPath(path, fs) ==
    IF path.val \in DOMAIN fs THEN path.val ELSE DEFAULT_LOGGING_SETTINGS_PATH

\* lines 70-77 inside "try: ... except Exception: config = {}": a failed
\* resolution counts as an empty configuration
ResolveConfigOrEmpty(settings, env, fs) ==
    LET path == value_from("PREFECT_LOGGING_SETTINGS_PATH", settings)
        loaded == load_logging_config(ReadText(fs, ChosenPath(path, fs)), settings, env)
    IN  IF path = NoneV \/ Raised(loaded) THEN Return(EmptyMap) ELSE loaded

ResolveConfig(settings, env, fs) ==
    LET path == value_from("PREFECT_LOGGING_SETTINGS_PATH", settings)
    IN  IF path = NoneV THEN Raise("AttributeError")
        ELSE load_logging_config(ReadText(fs, ChosenPath(path, fs)), settings, env)

\* the gate without its check: every call goes on to configure
GateNeverSet(stored) == FALSE

\* line 79: the gate is closed when the stored configuration is truthy
GateIsSet(stored) == Truthy(stored)

\* the comparison of line 84 inverted: the entries that are equal
ConfigDiffOfEqual(stored, config) ==
    IF ~(Keys(config) \subseteq Keys(stored))
    THEN Raise("KeyError")
    ELSE Return(MapV([key \in { k \in Keys(config) : stored.val[k] = config.val[k] }
                        |-> config.val[key]]))

\* lines 81-85: the top-level entries of config that differ from the stored
\* ones; stored[key] raises KeyError for a key that stored does not have
ConfigDiff(stored, config) ==
    IF ~(Keys(config) \subseteq Keys(stored))
    THEN Raise("KeyError")
    ELSE Return(MapV([key \in { k \in Keys(config) : stored.val[k] # config.val[k] }
                        |-> config.val[key]]))

\* lines 86-91: the warnings of the gate
DriftWarnings(config_diff) == IF Truthy(config_diff) THEN <<config_diff>> ELSE <<>>

\* lines 94-105: dictConfig, then the extra loggers
ApplySideEffect(config, settings, st) ==
    LET configured == dictConfig(config, st)
        names == value_from("PREFECT_LOGGING_EXTRA_LOGGERS", settings).val
    IN  IF configured.error # "" THEN configured
        ELSE Done(WireExtraLoggers(names, configured.state))

\* the assignment without the global declaration of line 66: a local is bound
StoreLocalOnly(stored, config) == stored

\* line 107: what the global holds after the store
StoreConfig(stored, config) == config

-----------------------------------------------------------------------------
(* The state machine. *)

Threads == 1..NumThreads
NoThread == 0

\* every environment over the variables of the model
Environs == UNION { [S -> EnvValues] : S \in SUBSET EnvVarNames }

\* every file system: the packaged default, with or without a user file
FileSystems == {PackagedFiles} \cup { PackagedFiles @@ (UserPath :> t) : t \in UserTemplates }

NoCall ==
    [called |-> FALSE, asked |-> NoneV, read |-> NoneV, gate |-> NoneV,
     resolved |-> Raise("none"),
     error |-> "", warnings |-> <<>>, entered |-> FALSE]

IdleLocal == [settings |-> <<>>, config |-> NoneV, observed |-> NoneV]

NoStep == [done |-> FALSE]
NoMerge == [done |-> FALSE, config |-> EmptyMap, env |-> <<>>, result |-> NoneV]

Init ==
    /\ PROCESS_LOGGING_CONFIG = NoneV
    /\ environ \in Environs
    /\ files \in FileSystems
    /\ logging_state = InitialLogging
    /\ warned = <<>>
    /\ dict_config_calls = 0
    /\ applied = <<>>
    /\ calls = 0
    /\ last = NoCall
    /\ pc = [t \in Threads |-> "idle"]
    /\ local = [t \in Threads |-> IdleLocal]
    /\ lock = NoThread
    /\ merge = NoMerge
    /\ step = NoStep

\* os.environ[name] = value, by the process or its caller
SetEnviron(name, value) ==
    /\ environ' = [n \in DOMAIN environ \cup {name} |-> IF n = name THEN value ELSE environ[n]]
    /\ UNCHANGED <<PROCESS_LOGGING_CONFIG, files, logging_state, warned,
                   dict_config_calls, applied, calls, last, pc, local, lock, merge, step>>

\* del os.environ[name]
UnsetEnviron(name) ==
    /\ name \in DOMAIN environ
    /\ environ' = [n \in DOMAIN environ \ {name} |-> environ[n]]
    /\ UNCHANGED <<PROCESS_LOGGING_CONFIG, files, logging_state, warned,
                   dict_config_calls, applied, calls, last, pc, local, lock, merge, step>>

\* the user's logging file is written
WriteUserFile(template) ==
    /\ files' = PackagedFiles @@ (UserPath :> template)
    /\ UNCHANGED <<PROCESS_LOGGING_CONFIG, environ, logging_state, warned,
                   dict_config_calls, applied, calls, last, pc, local, lock, merge, step>>

\* the user's logging file is removed
RemoveUserFile ==
    /\ UserPath \in DOMAIN files
    /\ files' = PackagedFiles
    /\ UNCHANGED <<PROCESS_LOGGING_CONFIG, environ, logging_state, warned,
                   dict_config_calls, applied, calls, last, pc, local, lock, merge, step>>

\* lines 65-107: one whole call setup_logging(settings)
SetupLogging(settings) ==
    LET resolved == ResolveConfig(settings, environ, files)
        config == resolved.value
        config_diff == ConfigDiff(PROCESS_LOGGING_CONFIG, config)
        effect == ApplySideEffect(config, settings, logging_state)
        path == value_from("PREFECT_LOGGING_SETTINGS_PATH", settings)
        record(error, warnings, entered) ==
            [called |-> TRUE, asked |-> path, gate |-> PROCESS_LOGGING_CONFIG,
             read |-> IF path = NoneV THEN NoneV ELSE StrV(ChosenPath(path, files)),
             resolved |-> resolved, error |-> error, warnings |-> warnings,
             entered |-> entered]
    IN  /\ calls < MaxCalls
        /\ calls' = calls + 1
        /\ UNCHANGED <<environ, files, pc, local, lock, merge, step>>
        /\ IF Raised(resolved)
           THEN /\ last' = record(resolved.error, <<>>, FALSE)
                /\ UNCHANGED <<PROCESS_LOGGING_CONFIG, logging_state, warned,
                               dict_config_calls, applied>>
           ELSE IF GateIsSet(PROCESS_LOGGING_CONFIG)
           THEN /\ IF Raised(config_diff)
                   THEN /\ last' = record(config_diff.error, <<>>, FALSE)
                        /\ warned' = warned
                   ELSE /\ last' = record("", DriftWarnings(config_diff.value), FALSE)
                        /\ warned' = warned \o DriftWarnings(config_diff.value)
                /\ UNCHANGED <<PROCESS_LOGGING_CONFIG, logging_state,
                               dict_config_calls, applied>>
           ELSE /\ dict_config_calls' = dict_config_calls + 1
                /\ logging_state' = effect.state
                /\ last' = record(effect.error, <<>>, TRUE)
                /\ warned' = warned
                /\ IF effect.error # ""
                   THEN UNCHANGED <<PROCESS_LOGGING_CONFIG, applied>>
                   ELSE /\ applied' = Append(applied,
                                       [by |-> NoThread, config |-> config,
                                        settings |-> settings,
                                        observed |-> PROCESS_LOGGING_CONFIG])
                        /\ PROCESS_LOGGING_CONFIG' =
                               StoreConfig(PROCESS_LOGGING_CONFIG, config)

Next ==
    \/ \E settings \in SettingsSnapshots : SetupLogging(settings)
    \/ \E name \in EnvVarNames, value \in EnvValues : SetEnviron(name, value)
    \/ \E name \in EnvVarNames : UnsetEnviron(name)
    \/ \E template \in UserTemplates : WriteUserFile(template)
    \/ RemoveUserFile

Spec == Init /\ [][Next]_vars

-----------------------------------------------------------------------------
(* setup_logging in a fresh process whose user file configures the logger  *)
(* 'prefect.extra', with handlers or without.                              *)

ExtraTemplates == { "small", "bare_extra" }

ExtraFileSystems ==
    {PackagedFiles} \cup { PackagedFiles @@ (UserPath :> t) : t \in ExtraTemplates }

InitExtra ==
    /\ PROCESS_LOGGING_CONFIG = NoneV
    /\ environ \in Environs
    /\ files \in ExtraFileSystems
    /\ logging_state = InitialLogging
    /\ warned = <<>>
    /\ dict_config_calls = 0
    /\ applied = <<>>
    /\ calls = 0
    /\ last = NoCall
    /\ pc = [t \in Threads |-> "idle"]
    /\ local = [t \in Threads |-> IdleLocal]
    /\ lock = NoThread
    /\ merge = NoMerge
    /\ step = NoStep

NextExtra == \E settings \in SettingsSnapshots : SetupLogging(settings)

SpecExtra == InitExtra /\ [][NextExtra]_vars

-----------------------------------------------------------------------------
(* setup_logging called from several threads: the steps of one call, which *)
(* other threads' steps may come between.                                  *)

\* a thread calls setup_logging, once
Call(t) ==
    /\ pc[t] = "idle"
    /\ calls' = calls + 1
    /\ pc' = [pc EXCEPT ![t] = "called"]
    /\ UNCHANGED <<PROCESS_LOGGING_CONFIG, environ, files, logging_state, warned,
                   dict_config_calls, applied, last, local, lock, merge, step>>

\* lines 70-77: the thread resolves its configuration, or raises
Load(t, settings) ==
    LET resolved == ResolveConfig(settings, environ, files)
    IN  /\ pc[t] = "called"
        /\ IF Raised(resolved)
           THEN /\ pc' = [pc EXCEPT ![t] = "returned"]
                /\ local' = [local EXCEPT ![t] = IdleLocal]
           ELSE /\ pc' = [pc EXCEPT ![t] = "gate"]
                /\ local' = [local EXCEPT ![t] =
                                [settings |-> settings, config |-> resolved.value,
                                 observed |-> NoneV]]
        /\ UNCHANGED <<PROCESS_LOGGING_CONFIG, environ, files, logging_state, warned,
                       dict_config_calls, applied, calls, last, lock, merge, step>>

\* lines 79-92: the thread reads the global and, if it is set, compares and returns
Gate(t) ==
    LET config_diff == ConfigDiff(PROCESS_LOGGING_CONFIG, local[t].config)
    IN  /\ pc[t] = "gate"
        /\ local' = [local EXCEPT ![t].observed = PROCESS_LOGGING_CONFIG]
        /\ IF GateIsSet(PROCESS_LOGGING_CONFIG)
           THEN /\ pc' = [pc EXCEPT ![t] = "returned"]
                /\ warned' = IF Raised(config_diff) THEN warned
                             ELSE warned \o DriftWarnings(config_diff.value)
           ELSE /\ pc' = [pc EXCEPT ![t] = "apply"]
                /\ warned' = warned
        /\ UNCHANGED <<PROCESS_LOGGING_CONFIG, environ, files, logging_state,
                       dict_config_calls, applied, calls, last, lock, merge, step>>

\* lines 94-105: dictConfig and the extra loggers, under the logging module's lock
Apply(t) ==
    LET effect == ApplySideEffect(local[t].config, local[t].settings, logging_state)
    IN  /\ pc[t] = "apply"
        /\ dict_config_calls' = dict_config_calls + 1
        /\ logging_state' = effect.state
        /\ IF effect.error # ""
           THEN /\ pc' = [pc EXCEPT ![t] = "returned"]
                /\ applied' = applied
           ELSE /\ pc' = [pc EXCEPT ![t] = "store"]
                /\ applied' = Append(applied, [by |-> t, config |-> local[t].config,
                                               settings |-> local[t].settings,
                                               observed |-> local[t].observed])
        /\ UNCHANGED <<PROCESS_LOGGING_CONFIG, environ, files, warned, calls, last,
                       local, lock, merge, step>>

\* line 107: the thread stores its configuration in the global
Store(t) ==
    /\ pc[t] = "store"
    /\ PROCESS_LOGGING_CONFIG' = StoreConfig(PROCESS_LOGGING_CONFIG, local[t].config)
    /\ pc' = [pc EXCEPT ![t] = "returned"]
    /\ UNCHANGED <<environ, files, logging_state, warned, dict_config_calls, applied,
                   calls, last, local, lock, merge, step>>

\* the call is over, by return or by an exception
Leave(t) ==
    /\ pc[t] = "returned"
    /\ pc' = [pc EXCEPT ![t] = "done"]
    /\ local' = [local EXCEPT ![t] = IdleLocal]
    /\ UNCHANGED <<PROCESS_LOGGING_CONFIG, environ, files, logging_state, warned,
                   dict_config_calls, applied, calls, last, lock, merge, step>>

NextThreads ==
    \/ \E t \in Threads : Call(t)
    \/ \E t \in Threads, settings \in SettingsSnapshots : Load(t, settings)
    \/ \E t \in Threads : Gate(t)
    \/ \E t \in Threads : Apply(t)
    \/ \E t \in Threads : Store(t)
    \/ \E t \in Threads : Leave(t)

\* threads that call setup_logging without any lock
SpecThreads == Init /\ [][NextThreads]_vars

-----------------------------------------------------------------------------
(* The same calls, each wrapped in one mutex held from before the call     *)
(* until after it.                                                         *)

\* with lock: setup_logging(settings) -- the lock is taken, then the call begins
LockedCall(t) ==
    /\ lock = NoThread
    /\ pc[t] = "idle"
    /\ calls' = calls + 1
    /\ pc' = [pc EXCEPT ![t] = "called"]
    /\ lock' = t
    /\ UNCHANGED <<PROCESS_LOGGING_CONFIG, environ, files, logging_state, warned,
                   dict_config_calls, applied, last, local, merge, step>>

\* the call is over and the lock is released
LockedLeave(t) ==
    /\ pc[t] = "returned"
    /\ lock = t
    /\ pc' = [pc EXCEPT ![t] = "done"]
    /\ local' = [local EXCEPT ![t] = IdleLocal]
    /\ lock' = NoThread
    /\ UNCHANGED <<PROCESS_LOGGING_CONFIG, environ, files, logging_state, warned,
                   dict_config_calls, applied, calls, last, merge, step>>

NextLocked ==
    \/ \E t \in Threads : LockedCall(t)
    \/ \E t \in Threads, settings \in SettingsSnapshots : Load(t, settings)
    \/ \E t \in Threads : Gate(t)
    \/ \E t \in Threads : Apply(t)
    \/ \E t \in Threads : Store(t)
    \/ \E t \in Threads : LockedLeave(t)

SpecLocked == Init /\ [][NextLocked]_vars

-----------------------------------------------------------------------------
(* The override merge on its own: any configuration, any environment. *)

KeyA == <<"a">>
KeyB == <<"b">>
KeyAB == <<"a", "_", "b">>

MergeLeaves == { IntV(<<"1">>), StrV(<<"x">>), ListV(<< <<"x">> >>), EmptyMap }

\* the mappings over the keys in S with values in V
MapsOver(S, V) == UNION { { MapV(f) : f \in [T -> V] } : T \in SUBSET S }

MergeInner == MapsOver({KeyA, KeyB}, { IntV(<<"1">>), StrV(<<"x">>) }) \ {EmptyMap}

\* parsed configurations: at most two top-level keys, nested one level deep
MergeConfigs ==
    { c \in MapsOver({KeyA, KeyB, KeyAB}, MergeLeaves \cup MergeInner) :
        Cardinality(Keys(c)) <= 2 }

MergeEnvNames == { EnvName(<<KeyA>>), EnvName(<<KeyB>>), EnvName(<<KeyA, KeyB>>) }
MergeEnvirons == UNION { [S -> { <<>>, <<"v">> }] : S \in SUBSET MergeEnvNames }

InitMerge ==
    /\ PROCESS_LOGGING_CONFIG = NoneV
    /\ environ = << >>
    /\ files = PackagedFiles
    /\ logging_state = InitialLogging
    /\ warned = <<>>
    /\ dict_config_calls = 0
    /\ applied = <<>>
    /\ calls = 0
    /\ last = NoCall
    /\ pc = [t \in Threads |-> "idle"]
    /\ local = [t \in Threads |-> IdleLocal]
    /\ lock = NoThread
    /\ step = NoStep
    /\ \E c \in MergeConfigs, e \in MergeEnvirons :
          merge = [done |-> FALSE, config |-> c, env |-> e, result |-> NoneV]

\* lines 47-62 on the parsed configuration merge.config under merge.env
MergeOverrides ==
    /\ ~merge.done
    /\ merge' = [merge EXCEPT !.done = TRUE,
                              !.result = ApplyOverrides(merge.config, merge.env)]
    /\ UNCHANGED <<PROCESS_LOGGING_CONFIG, environ, files, logging_state, warned,
                   dict_config_calls, applied, calls, last, pc, local, lock, step>>

NextMerge == MergeOverrides

SpecMerge == InitMerge /\ [][NextMerge]_vars

-----------------------------------------------------------------------------
(* The derivation of the variable name on its own: any key-path. *)

\* the characters in the keys of one key-path
MaxNameLen == 4

\* a lower-case letter, an upper-case letter, a digit, and two characters
\* outside [0-9a-zA-Z]
NameChars == { "a", "Z", "7", ".", "_" }

\* the sequences over S of the lengths in lo..hi
SeqsOver(S, lo, hi) == UNION { [1..n -> S] : n \in lo..hi }

\* the keys that s falls into when it is cut after the positions in cuts
RECURSIVE CutAt(_, _, _)
CutAt(s, cuts, from) ==
    LET later == { c \in cuts : c >= from }
    IN  IF later = {} THEN << SubSeq(s, from, Len(s)) >>
        ELSE << SubSeq(s, from, SetMin(later)) >> \o CutAt(s, cuts, SetMin(later) + 1)

\* every key-path of keys that are not empty, up to n characters in all
KeyPathsUpTo(n) ==
    UNION { { CutAt(s, cuts, 1) : cuts \in SUBSET (1..(Len(s) - 1)) } :
            s \in SeqsOver(NameChars, 1, n) }

\* the process before any call of setup_logging
Quiet ==
    /\ PROCESS_LOGGING_CONFIG = NoneV
    /\ environ = << >>
    /\ files = PackagedFiles
    /\ logging_state = InitialLogging
    /\ warned = <<>>
    /\ dict_config_calls = 0
    /\ applied = <<>>
    /\ calls = 0
    /\ last = NoCall
    /\ pc = [t \in Threads |-> "idle"]
    /\ local = [t \in Threads |-> IdleLocal]
    /\ lock = NoThread
    /\ merge = NoMerge

InitEnvName ==
    /\ Quiet
    /\ \E p \in KeyPathsUpTo(MaxNameLen) : step = [done |-> FALSE, key_tup |-> p, name |-> <<>>]

\* lines 53-55: the name looked up for step.key_tup
DeriveEnvName ==
    /\ ~step.done
    /\ step' = [step EXCEPT !.done = TRUE, !.name = EnvName(step.key_tup)]
    /\ UNCHANGED <<PROCESS_LOGGING_CONFIG, environ, files, logging_state, warned,
                   dict_config_calls, applied, calls, last, pc, local, lock, merge>>

NextEnvName == DeriveEnvName

SpecEnvName == InitEnvName /\ [][NextEnvName]_vars

-----------------------------------------------------------------------------
(* The resolution of a template on its own: any one-line template, any    *)
(* settings snapshot.                                                      *)

\* the pieces of the value of a template line
MaxPieces == 2

S_10 == <<"1", "0">>

\* a literal text, a placeholder for every registered setting, and one for
\* a name that is not registered
ResolvePieces ==
    { Lit(<<"x">>), Ref("NO_SUCH_SETTING") } \cup { Ref(name) : name \in SETTINGS }

\* the templates "level: <pieces>"
ResolveTemplates ==
    { << TextLine(0, K_level, pieces) >> : pieces \in SeqsOver(ResolvePieces, 1, MaxPieces) }

ResolveSnapshots ==
    { [PREFECT_LOGGING_LEVEL |-> StrV(level),
       PREFECT_LOGGING_SETTINGS_PATH |-> path,
       PREFECT_LOGGING_EXTRA_LOGGERS |-> ListV(extra)] :
        level \in {S_INFO, S_DEBUG, S_10},
        path \in {StrV(UserPath), NoneV},
        extra \in {<<>>, <<L_dask>>, <<L_dask, L_prefect>>} }

InitResolve ==
    /\ Quiet
    /\ \E t \in ResolveTemplates, v \in ResolveSnapshots :
          step = [done |-> FALSE, template |-> t, settings |-> v, result |-> Raise("none")]

\* lines 33-62 on step.template with step.settings, no variable in os.environ
ResolveTemplate ==
    /\ ~step.done
    /\ step' = [step EXCEPT !.done = TRUE,
                            !.result = load_logging_config(step.template, step.settings, << >>)]
    /\ UNCHANGED <<PROCESS_LOGGING_CONFIG, environ, files, logging_state, warned,
                   dict_config_calls, applied, calls, last, pc, local, lock, merge>>

NextResolve == ResolveTemplate

SpecResolve == InitResolve /\ [][NextResolve]_vars

-----------------------------------------------------------------------------
(* Properties of setup_logging and load_logging_config. *)

\* the latest call got past the resolution of its configuration
LastResolved == last.called /\ ~Raised(last.resolved)

\* the latest call resolved its configuration and found the gate Set
LastAtSetGate == LastResolved /\ GateIsSet(last.gate)

\* the step is one whole call of setup_logging
IsCall == calls' = calls + 1

\* the step changes nothing of the process: neither the global, nor the
\* logging module, nor the warnings
NoProcessEffect ==
    /\ PROCESS_LOGGING_CONFIG' = PROCESS_LOGGING_CONFIG
    /\ logging_state' = logging_state
    /\ dict_config_calls' = dict_config_calls
    /\ applied' = applied
    /\ warned' = warned

\* the top-level keys on which two configurations differ
DifferingKeys(a, b) ==
    { k \in Keys(a) \cup Keys(b) :
        k \notin Keys(a) \/ k \notin Keys(b) \/ a.val[k] # b.val[k] }

(* C1: over any series of sequential calls the side effect (dictConfig and
   the extra loggers) is invoked exactly once, by the first call whose
   resolution succeeds, and that call sets the gate: dictConfig is never
   entered twice, and once a call has resolved its configuration dictConfig
   has been entered exactly once and the gate is Set. *)
C1_SideEffectExactlyOnce ==
    /\ dict_config_calls <= 1
    /\ LastResolved => dict_config_calls = 1 /\ GateIsSet(PROCESS_LOGGING_CONFIG)

(* C2: once PROCESS_LOGGING_CONFIG is set, no step overwrites or unsets it,
   and it is the configuration of the first side effect that completed. *)
C2_NeverOverwritten ==
    [][ /\ PROCESS_LOGGING_CONFIG # NoneV =>
              PROCESS_LOGGING_CONFIG' = PROCESS_LOGGING_CONFIG
        /\ applied' # <<>> => PROCESS_LOGGING_CONFIG' = applied'[1].config
        /\ applied' = <<>> => PROCESS_LOGGING_CONFIG' = NoneV ]_vars

\* a call that resolved to another configuration than the stored one is over
C2_Witness ==
    /\ LastAtSetGate
    /\ last.resolved.value # last.gate
    /\ PROCESS_LOGGING_CONFIG = last.gate
    /\ calls = MaxCalls

(* C3: a call at the Set gate that resolves to a configuration B different
   from the stored A does not enter dictConfig and emits exactly one warning,
   whose entries are the top-level keys on which B differs from A. *)
C3_DriftWarnedOnce ==
    (LastAtSetGate /\ last.resolved.value # last.gate) =>
        /\ ~last.entered
        /\ Len(last.warnings) = 1
        /\ Keys(last.warnings[1]) = DifferingKeys(last.gate, last.resolved.value)

(* C4: a call at the Set gate that resolves to the stored configuration
   returns without a warning, without the side effect and without a change of
   PROCESS_LOGGING_CONFIG. *)
C4_IdenticalIsSilent ==
    [][ ( /\ IsCall
          /\ GateIsSet(PROCESS_LOGGING_CONFIG)
          /\ ~Raised(last'.resolved)
          /\ last'.resolved.value = PROCESS_LOGGING_CONFIG )
        => (last'.error = "" /\ last'.warnings = <<>> /\ NoProcessEffect) ]_vars

\* the stored configuration was resolved again by a later call
C4_Witness ==
    /\ LastAtSetGate
    /\ last.resolved.value = last.gate
    /\ last.error = ""
    /\ PROCESS_LOGGING_CONFIG = last.gate

(* C5: at the Set gate a call returns without an error whatever the
   configuration it resolved to. *)
C5_GateNeverRaises == LastAtSetGate => last.error = ""

(* C8: a call whose template names a setting that is not registered raises
   the KeyError of the substitution and changes nothing of the process. *)
C8_UnknownNameRaises ==
    [][ ( /\ IsCall
          /\ last'.read # NoneV
          /\ ~(Placeholders(ReadText(files, last'.read.val)) \subseteq SETTINGS) )
        => ( /\ Raised(last'.resolved)
             /\ last'.error = "KeyError"
             /\ NoProcessEffect ) ]_vars

\* the unknown name was met at the Set gate, the stored configuration kept
C8_Witness ==
    /\ last.called
    /\ last.resolved = Raise("KeyError")
    /\ GateIsSet(last.gate)
    /\ PROCESS_LOGGING_CONFIG = last.gate

(* C9: a call that raises, at whatever stage, leaves the logging module and
   PROCESS_LOGGING_CONFIG as they were. *)
C9_NoPartialApplication ==
    [][ (IsCall /\ last'.error # "")
        => ( /\ logging_state' = logging_state
             /\ PROCESS_LOGGING_CONFIG' = PROCESS_LOGGING_CONFIG ) ]_vars

(* C6: without a lock two threads can both read the global as unset at
   line 79 before either stores at line 107, and then both apply; every
   completed side effect belongs to a thread that read the global as unset. *)
C6_AppliedAfterUnsetGate ==
    \A i \in DOMAIN applied : applied[i].observed = NoneV

\* two threads have both completed the side effect in one process
C6_Witness ==
    /\ Len(applied) = 2
    /\ applied[1].by # applied[2].by
    /\ applied[1].observed = NoneV
    /\ applied[2].observed = NoneV

(* C7: with every call inside one lock, at most one side effect completes
   and a set global holds the configuration of the thread that completed it. *)
C7_LockedAppliesOnce ==
    /\ Len(applied) <= 1
    /\ GateIsSet(PROCESS_LOGGING_CONFIG) =>
          applied # <<>> /\ PROCESS_LOGGING_CONFIG = applied[1].config
    /\ (applied # <<>> /\ \A t \in Threads : pc[t] \in {"idle", "done"}) =>
          PROCESS_LOGGING_CONFIG = applied[1].config

\* one thread applied, another was turned away with a drift warning
C7_Witness ==
    /\ Len(applied) = 1
    /\ GateIsSet(PROCESS_LOGGING_CONFIG)
    /\ warned # <<>>
    /\ \A t \in Threads : pc[t] = "done"

\* the key-paths of a configuration
KeyPaths(c) == DOMAIN dict_to_flatdict(c)

(* C10: the override merge keeps the key-paths of the parsed configuration;
   the leaf at a key-path is the string value of the derived variable when
   that is set and not empty, and the parsed leaf otherwise. *)
C10_OverrideMerge ==
    merge.done =>
        /\ KeyPaths(merge.result) = KeyPaths(merge.config)
        /\ \A p \in KeyPaths(merge.config) :
              ValueAt(merge.result, p) =
                 IF EnvName(p) \in DOMAIN merge.env /\ merge.env[EnvName(p)] # <<>>
                 THEN StrV(merge.env[EnvName(p)])
                 ELSE ValueAt(merge.config, p)

\* a leaf that is not a string was overridden, one with an empty variable kept
C10_Witness ==
    /\ merge.done
    /\ \E p \in KeyPaths(merge.config) :
          /\ ValueAt(merge.config, p).kind # "str"
          /\ ValueAt(merge.result, p) = StrV(<<"v">>)
    /\ \E p \in KeyPaths(merge.config) :
          /\ EnvName(p) \in DOMAIN merge.env
          /\ merge.env[EnvName(p)] = <<>>
          /\ ValueAt(merge.result, p) = ValueAt(merge.config, p)

(* C11: flattening a configuration and re-nesting the result gives the
   configuration back, empty and nested empty mappings included; so with no
   override variable in the environment load_logging_config returns the
   parsed configuration. *)
C11_RoundTrip ==
    /\ flatdict_to_dict(dict_to_flatdict(merge.config)) = merge.config
    /\ (merge.done /\ DOMAIN merge.env = {}) => merge.result = merge.config

\* a configuration with a nested empty mapping and a list went through
\* lines 47-62 under an environment without variables
C11_Witness ==
    /\ merge.done
    /\ DOMAIN merge.env = {}
    /\ \E k \in Keys(merge.config) : merge.config.val[k] = EmptyMap
    /\ \E k \in Keys(merge.config) : merge.config.val[k].kind = "list"
    /\ merge.result = merge.config

\* "PREFECT_LOGGING_" and the keys of p, "_" between them
JoinedName(p) == EnvPrefix \o Join(p, <<"_">>)

\* the positions of s that show in the name: every character of
\* [0-9a-zA-Z], and the first character of every run of other characters
NamePositions(s) ==
    { i \in DOMAIN s : IsAlnum(s[i]) \/ i = 1 \/ IsAlnum(s[i - 1]) }

(* C12: the name derived for a key-path is made of upper-case letters,
   digits and "_" only; it is the prefix and the keys joined with "_", each
   letter or digit upper-cased in its place and each maximal run of other
   characters shown as one "_". *)
C12_EnvNameDerivation ==
    step.done =>
        LET s == JoinedName(step.key_tup)
            K == NamePositions(s)
            at(i) == Cardinality({ j \in K : j <= i })
        IN  /\ Range(step.name) \subseteq Range(Upper) \cup Range(Digits) \cup {"_"}
            /\ Len(step.name) = Cardinality(K)
            /\ \A i \in K :
                  step.name[at(i)] = IF IsAlnum(s[i]) THEN UpperChar(s[i]) ELSE "_"

\* a key-path with a lower-case letter and a run of characters outside the
\* class that spans the join and a key
C12_Witness ==
    /\ step.done
    /\ step.key_tup = << <<"a">>, <<".", "_">> >>
    /\ step.name = EnvPrefix \o <<"A", "_">>

\* the text a piece stands for under a snapshot
PieceText(piece, settings) ==
    IF ~piece.ref THEN piece.text
    ELSE LET v == settings[piece.name]
         IN  CASE v.kind = "none" -> <<"N","o","n","e">>
               [] v.kind = "list" -> PyStr(v)
               [] OTHER -> v.val

\* the text of the pieces, one after the other
RECURSIVE ValueText(_, _)
ValueText(pieces, settings) ==
    IF pieces = <<>> THEN <<>>
    ELSE PieceText(pieces[1], settings) \o ValueText(Tail(pieces), settings)

(* C13: for a template "level: ..." whose placeholders all name registered
   settings, the resolution does not fail on a name, and the value of level
   is the parse of the text in which every placeholder stands for the string
   form of its setting in the given snapshot: a list alone comes back as
   that list, digits as an integer, any other text that does not begin a
   list as that string; "level: ${PREFECT_LOGGING_LEVEL}" with the level
   INFO gives {level: 'INFO'}. *)
C13_TemplateResolution ==
    (step.done /\ Placeholders(step.template) \subseteq SETTINGS) =>
        LET pieces == step.template[1].pieces
            text == ValueText(pieces, step.settings)
            names == step.settings["PREFECT_LOGGING_EXTRA_LOGGERS"]
            level(v) == Return(MapV(K_level :> v))
        IN  /\ step.result.error \in {"", "YAMLError"}
            /\ (pieces = <<Ref("PREFECT_LOGGING_EXTRA_LOGGERS")>>) => step.result = level(names)
            /\ (text[1] # "[") =>
                  step.result = level(IF IsIntText(text) THEN IntV(text) ELSE StrV(text))
            /\ (pieces = <<Ref("PREFECT_LOGGING_LEVEL")>>
                    /\ step.settings["PREFECT_LOGGING_LEVEL"] = StrV(S_INFO))
                  => step.result = level(StrV(S_INFO))

\* "level: x${PREFECT_LOGGING_LEVEL}" under a snapshot with the level DEBUG
C13_Witness ==
    /\ step.done
    /\ step.template[1].pieces = <<Lit(<<"x">>), Ref("PREFECT_LOGGING_LEVEL")>>
    /\ step.settings["PREFECT_LOGGING_LEVEL"] = StrV(S_DEBUG)
    /\ step.result = Return(MapV(K_level :> StrV(<<"x">> \o S_DEBUG)))

\* the step is the first call of setup_logging that applied its configuration
FirstApplication == applied = <<>> /\ applied' # <<>>

(* C14: when the first application completes, every logger named in
   PREFECT_LOGGING_EXTRA_LOGGERS has every handler of 'prefect.extra' and its
   propagate flag, and its level if its own level was NOTSET, however many
   handlers 'prefect.extra' has. *)
C14_ExtraLoggersCarryConfig ==
    [][ FirstApplication =>
          \A name \in Range(applied'[1].settings["PREFECT_LOGGING_EXTRA_LOGGERS"].val) :
              LET extra_config == logging_state'.loggers[L_prefect_extra]
                  logger == logging_state'.loggers[name]
              IN  /\ extra_config.handlers \subseteq logger.handlers
                  /\ logger.propagate = extra_config.propagate
                  /\ logging_state.loggers[name].level = NOTSET
                        => logger.level = extra_config.level ]_vars

\* the key-paths ['a_b'] and ['a', 'b'], which derive one name
PathAB == << KeyAB >>
PathA_B == << KeyA, KeyB >>

\* the configuration has a leaf at both key-paths, and the environment holds
\* their variable, with a value, and no other variable
Collision ==
    /\ {PathAB, PathA_B} \subseteq KeyPaths(merge.config)
    /\ DOMAIN merge.env = { EnvName(PathAB) }
    /\ merge.env[EnvName(PathAB)] # <<>>

(* C15: ['a_b'] and ['a', 'b'] derive the same variable name; when a
   configuration has both and that variable alone is set, to a value that is
   not empty, the leaves at both key-paths become that value and the leaf at
   every key-path with another name stays. *)
C15_CollidingKeyPaths ==
    /\ EnvName(PathAB) = EnvName(PathA_B)
    /\ (merge.done /\ Collision) =>
          /\ ValueAt(merge.result, PathAB) = StrV(merge.env[EnvName(PathAB)])
          /\ ValueAt(merge.result, PathA_B) = StrV(merge.env[EnvName(PathAB)])
          /\ \A p \in KeyPaths(merge.config) :
                EnvName(p) # EnvName(PathAB)
                   => ValueAt(merge.result, p) = ValueAt(merge.config, p)

\* both leaves were replaced, next to a key-path of another name
C15_Witness ==
    /\ merge.done
    /\ Collision
    /\ ValueAt(merge.config, PathAB) # ValueAt(merge.config, PathA_B)
    /\ ValueAt(merge.result, PathAB) = StrV(<<"v">>)
    /\ ValueAt(merge.result, PathA_B) = StrV(<<"v">>)
    /\ \E p \in KeyPaths(merge.config) : EnvName(p) # EnvName(PathAB)

\* the error of a resolution that cannot succeed: a settings path of None,
\* a file with an unregistered placeholder, a file that is not YAML; "" for
\* any other input
InputError(read, fs) ==
    CASE read = NoneV -> "AttributeError"
      [] read # NoneV /\ fs[read.val] = "unknown_name" -> "KeyError"
      [] read # NoneV /\ fs[read.val] = "malformed" -> "YAMLError"
      [] OTHER -> ""

(* C16: the configuration is resolved before the gate is looked at, also
   when the gate is Set: a call in the Set state whose resolution cannot
   succeed raises the error of the resolution, warns of nothing, applies
   nothing and leaves the stored configuration as it is. *)
C16_ResolvedBeforeGate ==
    [][ (IsCall /\ GateIsSet(PROCESS_LOGGING_CONFIG) /\ InputError(last'.read, files) # "")
          => /\ last'.error = InputError(last'.read, files)
             /\ last'.warnings = <<>>
             /\ ~last'.entered
             /\ NoProcessEffect ]_vars

\* a call found the gate Set and raised the error of the YAML parse
C16_Witness ==
    /\ last.called
    /\ GateIsSet(last.gate)
    /\ last.error = "YAMLError"
    /\ PROCESS_LOGGING_CONFIG = last.gate
    /\ warned = <<>>

\* the top-level keys of a template
TopLevelKeys(template) ==
    { template[i].key : i \in { j \in DOMAIN template : template[j].indent = 0 } }

(* C17: a call reads the file at PREFECT_LOGGING_SETTINGS_PATH when that path
   exists, and the default at DEFAULT_LOGGING_SETTINGS_PATH when it does not
   exist or the setting is None; the configuration it resolves has the
   top-level keys of the one file it read, never those of both. *)
C17_PathSelection ==
    [][ IsCall =>
          LET asked == last'.asked
              exists == asked # NoneV /\ asked.val \in DOMAIN files
          IN  /\ last'.read = StrV(IF exists THEN asked.val ELSE DEFAULT_LOGGING_SETTINGS_PATH)
              /\ ~Raised(last'.resolved)
                    => Keys(last'.resolved.value)
                         = TopLevelKeys(ReadText(files, last'.read.val)) ]_vars

====
